---- MODULE Spec2Model ----
(***************************************************************************)
(* Scheduling engine of np-post-bot: the task store and its command        *)
(* handlers (scheduler-commands), the scheduled runner (schedule-runner    *)
(* script: main / executeTask / recordExecution / isTaskExecutedToday),    *)
(* the in-app "execute immediately" path and the SchedulerService          *)
(* start / stop / updateConfig state machine.                              *)
(*                                                                         *)
(* Strings that the code parses or searches are sequences of one-character *)
(* strings, so that parseInt, the HH:MM regular expression and             *)
(* String.includes are computed the way the code computes them.            *)
(***************************************************************************)
EXTENDS Integers, Sequences, FiniteSets, TLC

\* ------------------------------------------------------------------ bounds
MaxOps == 3        \* command-handler calls in one behaviour
MaxRunOps == 2     \* command-handler calls in one behaviour with the runner
MaxStamp == 1      \* Date.now() takes the values 0..MaxStamp
NumRand == 2       \* Math.floor(Math.random() * 1000) abstracted to 0..NumRand-1
MaxRuns == 2       \* runner invocations in one behaviour
MaxJumps == 2      \* clock advances in one behaviour
MaxSchedOps == 4   \* SchedulerService calls in one behaviour
MaxCronJumps == 3  \* clock advances in one behaviour of the cron tick
MaxPubOps == 2     \* scheduler.update calls in one behaviour with triggered runs
MaxCombos == 12    \* passes of the loops of one runSchedule
MaxInflight == 2   \* checkSchedule calls suspended in runSchedule at one time

\* ------------------------------------------------------- program constants
MaxHistory == 100  \* recordExecution keeps the last 100 records
Tolerance == 5     \* |minute - currentMinute| <= 5
MaxWait == 5       \* Math.min(interval * 60000, 5 * 60000), in minutes
MinutesPerHour == 60
HoursPerDay == 24

\* ---------------------------------------------------------------- strings
\* A string the code parses or searches is a tuple of pieces: single characters,
\* or literal fragments of the source that hold none of the characters looked for.
Digits == {"0", "1", "2", "3", "4", "5", "6", "7", "8", "9"}

DigitVal(c) ==
  CASE c = "0" -> 0 [] c = "1" -> 1 [] c = "2" -> 2 [] c = "3" -> 3
    [] c = "4" -> 4 [] c = "5" -> 5 [] c = "6" -> 6 [] c = "7" -> 7
    [] c = "8" -> 8 [] c = "9" -> 9

\* a JavaScript number that may be NaN
NaN == [nan |-> TRUE, val |-> 0]
Num(n) == [nan |-> FALSE, val |-> n]
isNaN(x) == x.nan

RECURSIVE SkipSpace(_)
SkipSpace(s) ==
  IF s # <<>> /\ Head(s) = " " THEN SkipSpace(Tail(s)) ELSE s

\* the longest prefix of decimal digits of s: [n |-> its length, val |-> its value]
RECURSIVE DigitPrefix(_, _)
DigitPrefix(s, acc) ==
  IF s # <<>> /\ Head(s) \in Digits
    THEN DigitPrefix(Tail(s), [n |-> acc.n + 1, val |-> acc.val * 10 + DigitVal(Head(s))])
    ELSE acc

\* parseInt(string): leading white space is skipped, an optional sign is read,
\* then the longest run of decimal digits; whatever follows is ignored; no
\* digit at all gives NaN.
parseInt(s) ==
  LET t == SkipSpace(s)
      neg == t # <<>> /\ Head(t) = "-"
      u == IF t # <<>> /\ Head(t) \in {"-", "+"} THEN Tail(t) ELSE t
      p == DigitPrefix(u, [n |-> 0, val |-> 0])
  IN IF p.n = 0 THEN NaN ELSE Num(IF neg THEN 0 - p.val ELSE p.val)

\* Number(string) for the two halves of a stored time: all digits, or NaN
\* (the empty string converts to 0).
Number(s) ==
  LET p == DigitPrefix(s, [n |-> 0, val |-> 0])
  IN IF p.n = Len(s) THEN Num(p.val) ELSE NaN

\* /^([01]\d|2[0-3]):([0-5]\d)$/.test(time)
TimeRegexTest(s) ==
  /\ Len(s) = 5
  /\ \/ s[1] \in {"0", "1"} /\ s[2] \in Digits
     \/ s[1] = "2" /\ s[2] \in {"0", "1", "2", "3"}
  /\ s[3] = ":"
  /\ s[4] \in {"0", "1", "2", "3", "4", "5"}
  /\ s[5] \in Digits

\* s.includes(c) for a one-character c
Includes(s, c) == \E i \in 1..Len(s) : s[i] = c

\* the two emoji the runner writes into its per-post lines
CheckMark == "U+2705"
CrossMark == "U+274C"

VARIABLES
  tasks,      \* the task store file: {tasks: ScheduleTask[]}
  history,    \* the history file: {executions: ExecutionRecord[]}
  msClock,    \* the last value Date.now() returned
  reply,      \* the last command handler call and what it returned
  bg,         \* executeTaskAsync invocations, in call order
  services,   \* which service container the process was started with
  now,        \* wall clock, in minutes since day 0 00:00 (UTC = local time)
  jumps,      \* clock advances so far
  run,        \* the runner invocations (one process each)
  runs,       \* runner invocations started so far
  execLog,    \* every executeTask call of the runner: [id, day, serial, manual]
  env,        \* the publish collaborator: "up", "down" or "flaky"
  sched,      \* the SchedulerService object
  persisted,  \* admin.settings.scheduler as saved by saveConfig
  schedOps    \* SchedulerService calls so far

storeVars == <<tasks, history, msClock, reply>>
execVars == <<bg, services>>
runnerVars == <<now, jumps, run, runs, execLog, env>>
schedVars == <<sched, persisted, schedOps>>
vars == <<tasks, history, msClock, reply, bg, services, now, jumps, run, runs,
          execLog, env, sched, persisted, schedOps>>

\* ------------------------------------------------------------- task store
NoId == <<>>                       \* args.id absent or empty
TaskId(stamp, rnd) == <<stamp, rnd>>   \* `task_${Date.now()}_${random}`
NoWallet == 0 - 1                  \* walletIndex undefined

\* findIndex answering the last index where there is no match
findIndexOrLast(ts, id) ==
  IF \E k \in 1..Len(ts) : ts[k].id = id
    THEN CHOOSE k \in 1..Len(ts) : ts[k].id = id /\ \A j \in 1..(k - 1) : ts[j].id # id
    ELSE Len(ts)

\* tasks.findIndex(task => task.id === taskId), 1-based; 0 when there is none
RECURSIVE findIndexFrom(_, _, _)
findIndexFrom(ts, id, k) ==
  IF k > Len(ts) THEN 0
  ELSE IF ts[k].id = id THEN k ELSE findIndexFrom(ts, id, k + 1)

findIndex(ts, id) == findIndexFrom(ts, id, 1)

\* loadTasks: the parsed list, or [] when reading or parsing throws
loadTasks(readOk) == IF readOk THEN tasks ELSE <<>>

\* tasks.splice(taskIndex, 1)
splice(ts, k) == [j \in 1..(Len(ts) - 1) |-> IF j < k THEN ts[j] ELSE ts[j + 1]]

NoArgs ==
  [time |-> <<>>, community |-> <<>>, count |-> <<>>, interval |-> <<>>,
   randomWallet |-> FALSE, hasWallet |-> FALSE, walletIndex |-> <<>>]

\* the handler's return value, with the call it answers; readFailed tells
\* that the handler's loadTasks fell back to []
Reply(op, a, id, ok, readOk) ==
  [seq |-> reply.seq + 1, op |-> op, args |-> a, id |-> id, success |-> ok,
   readFailed |-> ~readOk]

\* the validation of addScheduleTask, in the order of the code; "" is the
\* message of no rejection
walletIndexOf(a) ==
  IF ~a.randomWallet /\ a.hasWallet THEN parseInt(a.walletIndex) ELSE Num(NoWallet)

addRejection(a) ==
  LET w == walletIndexOf(a)
      contentCount == parseInt(a.count)
      interval == parseInt(a.interval)
  IN IF ~a.randomWallet /\ a.hasWallet /\ (isNaN(w) \/ w.val < 0) THEN "walletIndex"
     ELSE IF ~TimeRegexTest(a.time) THEN "time"
     ELSE IF a.community = <<>> THEN "community"
     ELSE IF isNaN(contentCount) \/ contentCount.val < 1 THEN "count"
     ELSE IF isNaN(interval) \/ interval.val < 1 THEN "interval"
     ELSE ""

newTask(a, id) ==
  [id |-> id, time |-> a.time, community |-> a.community,
   contentCount |-> parseInt(a.count).val, interval |-> parseInt(a.interval).val,
   walletIndex |-> walletIndexOf(a).val, useRandomWallet |-> a.randomWallet,
   enabled |-> TRUE]

\* scheduler.add_task
addScheduleTask(a, stamp, rnd, readOk, writeOk) ==
  /\ reply.seq < MaxOps
  /\ stamp \in {msClock, msClock + 1} /\ stamp <= MaxStamp
  /\ msClock' = IF addRejection(a) = "" THEN stamp ELSE msClock
  /\ IF addRejection(a) # ""
       THEN /\ reply' = Reply("add", a, NoId, FALSE, TRUE)
            /\ tasks' = tasks
       ELSE LET id == TaskId(stamp, rnd)
                ts == Append(loadTasks(readOk), newTask(a, id))
            IN /\ tasks' = IF writeOk THEN ts ELSE tasks
               /\ reply' = Reply("add", a, id, writeOk, readOk)
  /\ UNCHANGED <<history, execVars, runnerVars, schedVars>>

\* scheduler.delete_task
deleteScheduleTask(id, readOk, writeOk) ==
  /\ reply.seq < MaxOps
  /\ LET ts == loadTasks(readOk)
         taskIndex == findIndex(ts, id)
     IN IF id = NoId \/ taskIndex = 0
          THEN /\ reply' = Reply("delete", NoArgs, id, FALSE, readOk)
               /\ tasks' = tasks
          ELSE /\ tasks' = IF writeOk THEN splice(ts, taskIndex) ELSE tasks
               /\ reply' = Reply("delete", NoArgs, id, writeOk, readOk)
  /\ UNCHANGED <<history, msClock, execVars, runnerVars, schedVars>>

\* the list with the task moved to its end when its flag is set
withEnabledMoved(ts, k, flag) ==
  Append(splice(ts, k), [ts[k] EXCEPT !.enabled = flag])

\* task.enabled = flag on the task found in the loaded list, which is then
\* the list handed to saveTasks
withEnabled(ts, k, flag) == [ts EXCEPT ![k].enabled = flag]

\* scheduler.enable_task (flag = TRUE) and scheduler.disable_task (flag = FALSE)
setTaskEnabled(op, id, flag, readOk, writeOk) ==
  /\ reply.seq < MaxOps
  /\ LET ts == loadTasks(readOk)
         k == findIndex(ts, id)
     IN IF id = NoId \/ k = 0
          THEN /\ reply' = Reply(op, NoArgs, id, FALSE, readOk)
               /\ tasks' = tasks
          ELSE IF ts[k].enabled = flag
            THEN /\ reply' = Reply(op, NoArgs, id, TRUE, readOk)
                 /\ tasks' = tasks
            ELSE /\ tasks' = IF writeOk THEN withEnabled(ts, k, flag) ELSE tasks
                 /\ reply' = Reply(op, NoArgs, id, writeOk, readOk)
  /\ UNCHANGED <<history, msClock, execVars, runnerVars, schedVars>>

enableScheduleTask(id, readOk, writeOk) == setTaskEnabled("enable", id, TRUE, readOk, writeOk)

disableScheduleTask(id, readOk, writeOk) == setTaskEnabled("disable", id, FALSE, readOk, writeOk)


\* ------------------------------------------------- "execute immediately"
\* the own properties of the two service containers the application builds:
\* the object initServices returns, and the ServiceContainer class
ContainerProps(c) ==
  IF c = "initServices"
    THEN {"storage", "blockchain", "ai", "user", "wallet", "chain", "posting",
          "scheduler", "file"}
    ELSE {"services", "register", "get", "getAll", "initAll", "has"}

Containers == {"initServices", "ServiceContainer"}

\* the per-post line pushed by executeTaskAsync
asyncLine(k, ok) ==
  IF ok THEN <<CheckMark, " publish #", ToString(k), ": ok">>
        ELSE <<CrossMark, " publish #", ToString(k), ": failed">>

\* the for-loop of executeTaskAsync under the outcomes oks (oks[k]: post k
\* does not throw): the posts attempted, in order, and the lines pushed
asyncLoop(task, oks) ==
  [attempts |-> [k \in 1..task.contentCount |-> k],
   results |-> [k \in 1..task.contentCount |-> asyncLine(k, oks[k])]]

\* executeTaskAsync: returns before the loop when services.contentService or
\* services.publishService is missing
executeTaskAsync(task, oks) ==
  IF {"contentService", "publishService"} \subseteq ContainerProps(services)
    THEN [id |-> task.id, contentCount |-> task.contentCount, looped |-> TRUE,
          attempts |-> asyncLoop(task, oks).attempts,
          results |-> asyncLoop(task, oks).results]
    ELSE [id |-> task.id, contentCount |-> task.contentCount, looped |-> FALSE,
          attempts |-> <<>>, results |-> <<>>]

\* scheduler.execute_task
executeScheduleTask(id, readOk, oks) ==
  /\ reply.seq < MaxOps
  /\ LET ts == loadTasks(readOk)
         k == findIndex(ts, id)
     IN IF id = NoId \/ k = 0
          THEN /\ reply' = Reply("execute", NoArgs, id, FALSE, readOk)
               /\ bg' = bg
          ELSE /\ bg' = Append(bg, executeTaskAsync(ts[k], oks))
               /\ reply' = Reply("execute", NoArgs, id, TRUE, readOk)
  /\ UNCHANGED <<tasks, history, msClock, services, runnerVars, schedVars>>


\* ------------------------------------------------------------------ clock
MinutesPerDay == MinutesPerHour * HoursPerDay
Day(t) == t \div MinutesPerDay                    \* toISOString().split('T')[0]
Hour(t) == (t \div MinutesPerHour) % HoursPerDay  \* getHours()
Minute(t) == t % MinutesPerHour                   \* getMinutes()

Abs(x) == IF x < 0 THEN 0 - x ELSE x
Min(a, b) == IF a < b THEN a ELSE b

\* -------------------------------------------------- runner: history object
\* isTaskExecutedToday(history, taskId), today being the day of the clock
isTaskExecutedToday(h, taskId, today) ==
  \E k \in 1..Len(h) : h[k].taskId = taskId /\ h[k].executionDate = today

\* executions.slice(-n)
LastN(h, n) == IF Len(h) > n THEN SubSeq(h, Len(h) - n + 1, Len(h)) ELSE h

\* recordExecution truncating to the first 100 records instead of the last
recordExecutionKeepOldest(h, taskId, status, today) ==
  LET pushed == Append(h, [taskId |-> taskId, executionDate |-> today, status |-> status])
  IN IF Len(pushed) > MaxHistory THEN SubSeq(pushed, 1, MaxHistory) ELSE pushed

\* recordExecution(history, taskId, status, details): push, then keep the
\* last MaxHistory records
recordExecution(h, taskId, status, today) ==
  LET pushed == Append(h, [taskId |-> taskId, executionDate |-> today, status |-> status])
  IN IF Len(pushed) > MaxHistory THEN LastN(pushed, MaxHistory) ELSE pushed

\* ---------------------------------------------------- runner: executeTask
\* error.message of a failed execSync: "Command failed: " and the command line,
\* which quotes task.community
errorMessage(task) ==
  <<"Command failed: node src/cli.js content publish --community=\"">>
    \o task.community \o <<"\" --contentType=\"default\"">>

\* the line pushed for post k
resultLine(task, k, ok) ==
  IF ok THEN <<CheckMark, " publish #", ToString(k), ": ok">>
        ELSE <<CrossMark, " publish #", ToString(k), ": failed - ">> \o errorMessage(task)

\* results.every(r => r.includes(CheckMark))
resultSuccess(results) ==
  \A k \in 1..Len(results) : Includes(results[k], CheckMark)

\* the wait without the cap of five minutes
waitMinutesUncapped(task) == IF task.interval > 0 THEN task.interval ELSE 0

\* the wait before post i + 1 (i > 0), in minutes
waitMinutes(task) ==
  IF task.interval > 0 THEN Min(task.interval, MaxWait) ELSE 0

\* ----------------------------------------------------------- runner: main
Runners == {1, 2}

\* task.time.split(':').map(Number)
RECURSIVE splitAt(_, _, _)
splitAt(s, c, acc) ==
  IF s = <<>> THEN <<acc, <<>>>>
  ELSE IF Head(s) = c THEN <<acc, Tail(s)>>
  ELSE splitAt(Tail(s), c, Append(acc, Head(s)))

taskHour(task) == Number(splitAt(task.time, ":", <<>>)[1])
taskMinute(task) == Number(splitAt(task.time, ":", <<>>)[2])

\* isTimeMatch by the distance on the clock face, whatever the hour
isTimeMatchAcrossHours(task, currentHour, currentMinute) ==
  /\ ~isNaN(taskHour(task)) /\ ~isNaN(taskMinute(task))
  /\ LET d == Abs((taskHour(task).val * MinutesPerHour + taskMinute(task).val)
                  - (currentHour * MinutesPerHour + currentMinute))
     IN Min(d, MinutesPerDay - d) <= Tolerance

isTimeMatch(task, currentHour, currentMinute) ==
  /\ ~isNaN(taskHour(task)) /\ ~isNaN(taskMinute(task))
  /\ taskHour(task).val = currentHour
  /\ Abs(taskMinute(task).val - currentMinute) <= Tolerance

\* taskDue without the check of task.enabled
taskDueAnyTask(task, h, currentHour, currentMinute, today) ==
  /\ isTimeMatch(task, currentHour, currentMinute)
  /\ ~isTaskExecutedToday(h, task.id, today)

\* the loop body of main up to the call of executeTask: does the tick run task?
taskDue(task, h, currentHour, currentMinute, today) ==
  /\ task.enabled
  /\ isTimeMatch(task, currentHour, currentMinute)
  /\ ~isTaskExecutedToday(h, task.id, today)

\* the next task of the list, from index k on, that the tick executes; 0 when
\* the loop ends
RECURSIVE nextDue(_, _, _, _, _, _)
nextDue(ts, h, k, currentHour, currentMinute, today) ==
  IF k > Len(ts) THEN 0
  ELSE IF taskDue(ts[k], h, currentHour, currentMinute, today) THEN k
  ELSE nextDue(ts, h, k + 1, currentHour, currentMinute, today)

NoExec ==
  [id |-> NoId, contentCount |-> 0, attempts |-> <<>>, oks |-> <<>>,
   results |-> <<>>, success |-> FALSE, status |-> ""]

Idle ==
  [pc |-> "idle", serial |-> 0, manual |-> NoId, tickDay |-> 0,
   ltasks |-> <<>>, lhist |-> <<>>, loaded |-> <<>>, recs |-> <<>>,
   cur |-> 0, i |-> 0, oks |-> <<>>, results |-> <<>>, wake |-> 0,
   hour |-> 0, minute |-> 0, last |-> NoExec]

\* main with the enabled check applied to MANUAL_TASK_ID as well
mainStartGated(r, manualId) ==
  LET f == findIndex(tasks, manualId)
      k == IF manualId # NoId
             THEN IF f # 0 /\ tasks[f].enabled THEN f ELSE 0
             ELSE nextDue(tasks, history, 1, Hour(now), Minute(now), Day(now))
      started == [Idle EXCEPT !.serial = runs + 1, !.manual = manualId,
                    !.tickDay = Day(now), !.ltasks = tasks, !.lhist = history,
                    !.loaded = history, !.hour = Hour(now), !.minute = Minute(now)]
  IN IF k = 0
       THEN IF manualId # NoId /\ f = 0 THEN Idle
            ELSE [started EXCEPT !.pc = "save"]
       ELSE [started EXCEPT !.pc = "post", !.cur = k, !.wake = now]

\* main from its start to the first executeTask call (or to saveHistory):
\* loads both files, reads the clock, and either looks up MANUAL_TASK_ID or
\* scans the list
mainStart(r, manualId) ==
  LET k == IF manualId # NoId
             THEN findIndex(tasks, manualId)
             ELSE nextDue(tasks, history, 1, Hour(now), Minute(now), Day(now))
      started == [Idle EXCEPT !.serial = runs + 1, !.manual = manualId,
                    !.tickDay = Day(now), !.ltasks = tasks, !.lhist = history,
                    !.loaded = history, !.hour = Hour(now), !.minute = Minute(now)]
  IN IF k = 0
       THEN IF manualId # NoId THEN Idle    \* task not found: return, nothing saved
            ELSE [started EXCEPT !.pc = "save"]
       ELSE [started EXCEPT !.pc = "post", !.cur = k, !.wake = now]

ExecEntry(st, k, serial, t) ==
  [id |-> st.ltasks[k].id, tickDay |-> st.tickDay, startDay |-> Day(t),
   serial |-> serial, manual |-> st.manual # NoId]

RunnerStart(r, manualId, others) ==
  /\ runs < MaxRuns
  /\ run[r].pc = "idle"
  /\ \A o \in others : run[o].pc = "idle"
  /\ LET st == mainStart(r, manualId)
     IN /\ run' = [run EXCEPT ![r] = st]
        /\ execLog' = IF st.pc = "post"
                        THEN Append(execLog, ExecEntry(st, st.cur, runs + 1, now))
                        ELSE execLog
  /\ runs' = runs + 1
  /\ UNCHANGED <<storeVars, execVars, now, jumps, env, schedVars>>

\* finishTask without the call of recordExecution
finishTaskUnrecorded(st, oks, results, t) ==
  LET done == [st EXCEPT !.i = 0, !.oks = <<>>, !.results = <<>>]
      k == IF st.manual # NoId THEN 0
           ELSE nextDue(st.ltasks, st.lhist, st.cur + 1, st.hour, st.minute, Day(t))
  IN IF k = 0 THEN [done EXCEPT !.pc = "save", !.cur = 0]
     ELSE [done EXCEPT !.pc = "post", !.cur = k, !.wake = t]

\* executeTask's return value and what main does with it, after the last post
\* (made at time t)
finishTask(st, oks, results, t) ==
  LET task == st.ltasks[st.cur]
      success == resultSuccess(results)
      status == IF success THEN "success" ELSE "failure"
      h == recordExecution(st.lhist, task.id, status, Day(t))
      rec == [taskId |-> task.id, executionDate |-> Day(t), status |-> status]
      done == [st EXCEPT !.lhist = h, !.recs = Append(st.recs, rec),
                 !.i = 0, !.oks = <<>>, !.results = <<>>,
                 !.last = [id |-> task.id, contentCount |-> task.contentCount,
                           attempts |-> [j \in 1..Len(oks) |-> j], oks |-> oks,
                           results |-> results, success |-> success,
                           status |-> status]]
      k == IF st.manual # NoId THEN 0
           ELSE nextDue(st.ltasks, h, st.cur + 1, st.hour, st.minute, Day(t))
  IN IF k = 0 THEN [done EXCEPT !.pc = "save", !.cur = 0]
     ELSE [done EXCEPT !.pc = "post", !.cur = k, !.wake = t]

\* one iteration of the for-loop of executeTask: the wait before post i + 1
\* ends, the post runs and its line is pushed; after the last one the result
\* is recorded and main goes on to the next task
RunnerPost(r, ok) ==
  /\ run[r].pc = "post"
  /\ env = "up" => ok
  /\ env = "down" => ~ok
  /\ LET st == run[r]
         t == IF now < st.wake THEN st.wake ELSE now
         task == st.ltasks[st.cur]
         k == st.i + 1
         oks == Append(st.oks, ok)
         results == Append(st.results, resultLine(task, k, ok))
         st2 == IF k < task.contentCount
                  THEN [st EXCEPT !.i = k, !.oks = oks, !.results = results,
                                  !.wake = t + waitMinutes(task)]
                  ELSE finishTask(st, oks, results, t)
     IN /\ now' = t
        /\ run' = [run EXCEPT ![r] = st2]
        /\ execLog' = IF k >= task.contentCount /\ st2.pc = "post"
                        THEN Append(execLog, ExecEntry(st2, st2.cur, st2.serial, t))
                        ELSE execLog
  /\ UNCHANGED <<storeVars, execVars, jumps, runs, env, schedVars>>

\* saveHistory(history), the end of main
RunnerSave(r) ==
  /\ run[r].pc = "save"
  /\ history' = run[r].lhist
  /\ run' = [run EXCEPT ![r] = [Idle EXCEPT !.last = run[r].last]]
  /\ UNCHANGED <<tasks, msClock, reply, execVars, now, jumps, runs, execLog, env, schedVars>>

\* time passes
JumpSet == {3, MinutesPerDay}

Advance(d) ==
  /\ jumps < MaxJumps
  /\ now' = now + d
  /\ jumps' = jumps + 1
  /\ UNCHANGED <<storeVars, execVars, run, runs, execLog, env, schedVars>>


\* ------------------------------------------------------------- CronParser
\* pattern.split(c): the pieces of s between the occurrences of c
RECURSIVE split(_, _, _)
split(s, c, acc) ==
  IF s = <<>> THEN <<acc>>
  ELSE IF Head(s) = c THEN <<acc>> \o split(Tail(s), c, <<>>)
  ELSE split(Tail(s), c, Append(acc, Head(s)))

\* the step branch with equality in place of the remainder test
stepMatchesEqual(step, value) == ~isNaN(step) /\ value = step.val

\* value % Number(step) === 0 (a remainder by 0 or by NaN is NaN)
stepMatches(step, value) == ~isNaN(step) /\ step.val # 0 /\ value % step.val = 0

\* CronParser.matches(pattern, value)
RECURSIVE matches(_, _)
matches(pattern, value) ==
  IF pattern = <<"*">> THEN TRUE
  ELSE IF Includes(pattern, ",")
    THEN LET parts == split(pattern, ",", <<>>)
         IN \E k \in 1..Len(parts) : matches(parts[k], value)
  ELSE IF Includes(pattern, "-")
    THEN LET parts == split(pattern, "-", <<>>)
             start == Number(parts[1])
             end == Number(parts[2])
         IN ~isNaN(start) /\ ~isNaN(end) /\ value >= start.val /\ value <= end.val
  ELSE IF Includes(pattern, "/")
    THEN stepMatches(Number(split(pattern, "/", <<>>)[2]), value)
  ELSE ~isNaN(Number(pattern)) /\ Number(pattern).val = value

\* the calendar of the clock: day 0 is Thursday 1 January of a year of
\* 365 days
MonthDays == <<31, 28, 31, 30, 31, 30, 31, 31, 30, 31, 30, 31>>
DaysPerYear == 365

RECURSIVE dateOf(_, _)
dateOf(dayOfYear, m) ==
  IF dayOfYear < MonthDays[m] THEN [month |-> m, date |-> dayOfYear + 1]
  ELSE dateOf(dayOfYear - MonthDays[m], m + 1)

DayOfMonth(t) == dateOf(Day(t) % DaysPerYear, 1).date     \* getDate()
Month(t) == dateOf(Day(t) % DaysPerYear, 1).month         \* getMonth() + 1
GetDay(t) == (Day(t) + 4) % 7        \* getDay(), Sunday = 0
DayOfWeekFromZero(t) == GetDay(t)    \* getDay() as it is, Sunday = 0
DayOfWeek(t) == IF GetDay(t) = 0 THEN 7 ELSE GetDay(t)   \* getDay() || 7

\* isTimeMatching without the test of the hour field
isTimeMatchingNoHour(cronExpression, t) ==
  IF cronExpression = <<>> THEN FALSE
  ELSE LET parts == split(cronExpression, " ", <<>>)
       IN /\ Len(parts) = 5
          /\ matches(parts[1], Minute(t))
          /\ matches(parts[3], DayOfMonth(t))
          /\ matches(parts[4], Month(t))
          /\ matches(parts[5], DayOfWeek(t))

\* CronParser.isTimeMatching(cronExpression) at time t
isTimeMatching(cronExpression, t) ==
  IF cronExpression = <<>> THEN FALSE
  ELSE LET parts == split(cronExpression, " ", <<>>)
       IN /\ Len(parts) = 5
          /\ matches(parts[1], Minute(t))
          /\ matches(parts[2], Hour(t))
          /\ matches(parts[3], DayOfMonth(t))
          /\ matches(parts[4], Month(t))
          /\ matches(parts[5], DayOfWeek(t))

\* ------------------------------------------------------- SchedulerService
\* JavaScript values of config.enabled: the booleans, and the strings the
\* transport layer hands over unconverted
JsTrue == "true:boolean"
JsFalse == "false:boolean"
Truthy(v) == v \notin {JsFalse, ":string"}

None == 0 - 1     \* null (startTime, endTime, nextRunTime, lastRunTime)

DefaultCron == <<"0", " ", "*", " ", "*", " ", "*", " ", "*">>

\* JavaScript strings and arrays as values of arguments and config fields
\* (numbers are the records of Num and NaN)
Str(cs) == [type |-> "string", v |-> cs]
Arr(items) == [type |-> "array", items |-> items]
IsString(x) == "type" \in DOMAIN x /\ x.type = "string"
isArray(x) == "type" \in DOMAIN x /\ x.type = "array"

DefaultConfig ==
  [enabled |-> JsFalse, interval |-> Num(MinutesPerHour * MinutesPerHour),
   enabledChains |-> Arr(<<>>), ensLabels |-> Arr(<<>>),
   walletIndices |-> Arr(<<>>), cronExpression |-> DefaultCron,
   useRandomContent |-> JsTrue, startTime |-> None, endTime |-> None]

EmptyPartial == [k \in {} |-> None]

\* { ...config, ...partial }
Merge(config, partial) ==
  [k \in DOMAIN config \cup DOMAIN partial |->
     IF k \in DOMAIN partial THEN partial[k] ELSE config[k]]

\* x.length of a config value (undefined, here 0, for a number)
jsLength(x) ==
  IF isArray(x) THEN Len(x.items) ELSE IF IsString(x) THEN Len(x.v) ELSE 0

\* the values a for-of loop over x takes: the items of an array, the
\* characters of a string
jsItems(x) ==
  IF isArray(x) THEN x.items ELSE [k \in 1..Len(x.v) |-> Str(<<x.v[k]>>)]

\* x.length > 0 ? x : [default]
listOrDefault(x, dflt) == IF jsLength(x) > 0 THEN jsItems(x) ELSE <<dflt>>

\* ['default'], [this.storage.getDefaultChain()], [1]
Defaults ==
  [ensLabel |-> Str(<<"d", "e", "f", "a", "u", "l", "t">>),
   chainName |-> Str(<<"b", "a", "s", "e">>),
   walletIndex |-> Num(1)]

\* the three config fields runSchedule reads when it starts
listsOf(c) ==
  [ensLabels |-> c.ensLabels, enabledChains |-> c.enabledChains,
   walletIndices |-> c.walletIndices]

\* the three lists runSchedule loops over (of: the config fields they
\* were made from)
captured(c) ==
  [ensLabels |-> listOrDefault(c.ensLabels, Defaults.ensLabel),
   enabledChains |-> listOrDefault(c.enabledChains, Defaults.chainName),
   walletIndices |-> listOrDefault(c.walletIndices, Defaults.walletIndex),
   of |-> listsOf(c)]

\* the passes of the three nested loops of runSchedule, in order
combinations(cap) ==
  LET nC == Len(cap.enabledChains)
      nW == Len(cap.walletIndices)
  IN [k \in 1..(Len(cap.ensLabels) * nC * nW) |->
        [ensLabel |-> cap.ensLabels[((k - 1) \div (nC * nW)) + 1],
         chainName |-> cap.enabledChains[(((k - 1) \div nW) % nC) + 1],
         walletIndex |-> cap.walletIndices[((k - 1) % nW) + 1]]]

\* the passes runSchedule makes under the outcomes outs (setCurrentChain
\* throws: "switchFailed", the publish call throws: "publishFailed", it
\* returns: "published"): each pass has its own try/catch
attempts(cap, outs) ==
  LET all == combinations(cap)
  IN [k \in 1..Len(all) |-> [combo |-> all[k], outcome |-> outs[k]]]

\* the outcomes of the passes of one runSchedule: all succeed, all fail, or
\* the first or the second fails
AllPublished == [k \in 1..MaxCombos |-> "published"]

OutcomePatterns ==
  { AllPublished, [k \in 1..MaxCombos |-> "switchFailed"],
    [AllPublished EXCEPT ![1] = "publishFailed"],
    [AllPublished EXCEPT ![2] = "switchFailed"] }

\* updateNextRunTime: the next whole minute
updateNextRunTime(sv) == [sv EXCEPT !.nextRunTime = now + 1]

\* setupTimer: clears the timer, and sets a new one iff config.enabled; the
\* new interval calls checkSchedule 60 seconds later for the first time
\* (rearmed: the last call of the service ran setupTimer; firedAt: the last
\* minute in which each interval has called, or was set)
setupTimer(sv) ==
  IF Truthy(sv.config.enabled)
    THEN updateNextRunTime([sv EXCEPT !.timer = TRUE, !.isRunning = TRUE,
                                      !.rearmed = TRUE, !.firedAt.timer = now])
    ELSE [sv EXCEPT !.timer = FALSE, !.isRunning = FALSE, !.nextRunTime = None,
                    !.rearmed = TRUE]

\* loadConfig: merges admin.settings.scheduler when the admin record is there
loadConfig(saved, adminVisible) ==
  LET c == IF adminVisible THEN Merge(DefaultConfig, saved) ELSE DefaultConfig
  IN IF c.cronExpression = <<>> THEN [c EXCEPT !.cronExpression = DefaultCron] ELSE c

\* the constructor: loadConfig, then setupTimer, then its own setInterval
constructed(saved, adminVisible) ==
  setupTimer([config |-> loadConfig(saved, adminVisible), timer |-> FALSE,
              isRunning |-> FALSE, nextRunTime |-> None, lastRunTime |-> None,
              inflight |-> 0, lastOp |-> "new", lastArg |-> EmptyPartial,
              rearmed |-> FALSE, firedAt |-> [ctor |-> now, timer |-> now],
              pending |-> <<>>,
              lastRun |-> [done |-> FALSE, of |-> listsOf(DefaultConfig),
                           attempts |-> <<>>]])

\* stop(): enabled = false, saveConfig, clearInterval
stopped(sv, op) ==
  [sv EXCEPT !.config = [sv.config EXCEPT !.enabled = JsFalse],
             !.timer = FALSE, !.isRunning = FALSE, !.nextRunTime = None,
             !.lastOp = op, !.lastArg = EmptyPartial, !.rearmed = FALSE]

\* start(config?)
start(partial) ==
  /\ schedOps < MaxSchedOps
  /\ LET c == [Merge(sched.config, partial) EXCEPT !.enabled = JsTrue]
     IN /\ sched' = setupTimer([sched EXCEPT !.config = c, !.lastOp = "start",
                                             !.lastArg = partial])
        /\ persisted' = c
  /\ schedOps' = schedOps + 1
  /\ UNCHANGED <<storeVars, execVars, runnerVars>>

\* stop()
stop ==
  /\ schedOps < MaxSchedOps
  /\ sched' = stopped(sched, "stop")
  /\ persisted' = sched'.config
  /\ schedOps' = schedOps + 1
  /\ UNCHANGED <<storeVars, execVars, runnerVars>>

\* rearms without the comparison of the enabled flags
rearmsOnCronOnly(wasEnabled, cronChanged, c) == cronChanged

\* whether updateConfig re-arms the timer
rearms(wasEnabled, cronChanged, c) == wasEnabled # c.enabled \/ cronChanged

\* the service object after updateConfig(partial)
updated(sv, partial) ==
  LET wasEnabled == sv.config.enabled
      cronChanged == /\ "cronExpression" \in DOMAIN partial
                     /\ partial.cronExpression # <<>>
                     /\ partial.cronExpression # sv.config.cronExpression
      c == Merge(sv.config, partial)
      s1 == [sv EXCEPT !.config = c, !.lastOp = "update",
                       !.lastArg = partial, !.rearmed = FALSE]
      s2 == IF rearms(wasEnabled, cronChanged, c) THEN setupTimer(s1) ELSE s1
  IN IF Truthy(c.enabled) THEN updateNextRunTime(s2) ELSE s2

\* updateConfig(partial)
updateConfig(partial) ==
  /\ schedOps < MaxSchedOps
  /\ sched' = updated(sched, partial)
  /\ persisted' = sched'.config
  /\ schedOps' = schedOps + 1
  /\ UNCHANGED <<storeVars, execVars, runnerVars>>

\* config.startTime && now < new Date(config.startTime)
beforeStartTime(c, t) == c.startTime # None /\ t < c.startTime

\* the test of endTime never succeeding
afterEndTimeNever(c, t) == FALSE

\* config.endTime && now > new Date(config.endTime)
afterEndTime(c, t) == c.endTime # None /\ t > c.endTime

\* checkSchedule, called by the constructor's interval ("ctor") and by the
\* timer of setupTimer ("timer"), each once in 60 seconds, up to its await
\* of runSchedule
checkSchedule(src) ==
  /\ src = "timer" => sched.timer
  /\ sched.firedAt[src] < now
  /\ LET sv == [sched EXCEPT !.firedAt[src] = now]
     IN IF ~Truthy(sched.config.enabled)
          THEN sched' = sv /\ UNCHANGED persisted
        ELSE IF beforeStartTime(sched.config, now)
          THEN sched' = sv /\ UNCHANGED persisted
        ELSE IF afterEndTime(sched.config, now)
          THEN /\ sched' = stopped(sv, "expire")
               /\ persisted' = sched'.config
        ELSE IF isTimeMatching(sched.config.cronExpression, now)
          THEN /\ sched.inflight < MaxInflight
               /\ sched' = [sv EXCEPT !.inflight = @ + 1, !.lastRunTime = now,
                                      !.lastOp = "tick",
                                      !.pending = Append(@, captured(sched.config))]
               /\ UNCHANGED persisted
        ELSE /\ sched' = [updateNextRunTime(sv) EXCEPT !.lastOp = "tick"]
             /\ UNCHANGED persisted
  /\ UNCHANGED <<storeVars, execVars, runnerVars, schedOps>>

\* runSchedule returns and checkSchedule goes on to updateNextRunTime
runScheduleDone(outs) ==
  /\ sched.inflight > 0
  /\ \E p \in 1..Len(sched.pending) :
       sched' = [updateNextRunTime(sched) EXCEPT
                   !.inflight = @ - 1,
                   !.lastRun = [done |-> TRUE, of |-> sched.pending[p].of,
                                attempts |-> attempts(sched.pending[p], outs)],
                   !.pending = SubSeq(@, 1, p - 1) \o SubSeq(@, p + 1, Len(@))]
  /\ UNCHANGED <<storeVars, execVars, runnerVars, persisted, schedOps>>


\* ---------------------------------------------- scheduler.update handlers
RECURSIVE TrimEnd(_)
TrimEnd(s) ==
  IF s # <<>> /\ s[Len(s)] = " " THEN TrimEnd(SubSeq(s, 1, Len(s) - 1)) ELSE s

\* label.trim()
trim(s) == TrimEnd(SkipSpace(s))

Quote == "\""

\* one element of a JSON array literal: a double-quoted string without
\* escapes, or an unsigned integer; anything else makes JSON.parse throw
jsonItem(piece) ==
  LET t == trim(piece)
  IN IF /\ Len(t) >= 2 /\ t[1] = Quote /\ t[Len(t)] = Quote
        /\ ~Includes(SubSeq(t, 2, Len(t) - 1), Quote)
       THEN [ok |-> TRUE, v |-> Str(SubSeq(t, 2, Len(t) - 1))]
     ELSE IF t # <<>> /\ ~isNaN(Number(t)) THEN [ok |-> TRUE, v |-> Number(t)]
     ELSE [ok |-> FALSE, v |-> NaN]

\* JSON.parse(s) for an s that starts with "[" and ends with "]" (strings
\* holding a comma are outside the inputs); ok = FALSE: it throws
JSONparse(s) ==
  LET body == trim(SubSeq(s, 2, Len(s) - 1))
      parts == split(body, ",", <<>>)
      items == [k \in 1..Len(parts) |-> jsonItem(parts[k])]
  IN IF Len(s) < 2 THEN [ok |-> FALSE, v |-> Arr(<<>>)]
     ELSE IF body = <<>> THEN [ok |-> TRUE, v |-> Arr(<<>>)]
     ELSE IF \A k \in 1..Len(parts) : items[k].ok
       THEN [ok |-> TRUE, v |-> Arr([k \in 1..Len(parts) |-> items[k].v])]
     ELSE [ok |-> FALSE, v |-> Arr(<<>>)]

\* the ensLabels branch of updateSchedulerConfig: ok = FALSE is a rejection
ensLabelsOf(x) ==
  LET parts == split(x.v, ",", <<>>)
      parsed ==
        IF IsString(x)
          THEN IF x.v # <<>> /\ Head(x.v) = "[" /\ x.v[Len(x.v)] = "]"
                 THEN JSONparse(x.v)
                 ELSE [ok |-> TRUE,
                       v |-> Arr([k \in 1..Len(parts) |-> Str(trim(parts[k]))])]
          ELSE [ok |-> TRUE, v |-> x]
  IN IF parsed.ok /\ isArray(parsed.v) THEN parsed ELSE [ok |-> FALSE, v |-> x]

\* parseInt(x) of an argument that is a string or already a number
parseIntOf(x) == IF IsString(x) THEN parseInt(x.v) ELSE x

UpdateKeys == {"interval", "ensLabels", "userId", "walletIndex"}

\* scheduler.update as src/commands/scheduler-commands.ts has it: builds
\* newConfig from the validated fields and hands it to updateConfig
updateSchedulerConfig(args) ==
  /\ schedOps < MaxSchedOps
  /\ LET has(k) == k \in DOMAIN args
         interval == IF has("interval") THEN parseIntOf(args.interval) ELSE NaN
         ens == IF has("ensLabels") THEN ensLabelsOf(args.ensLabels)
                ELSE [ok |-> TRUE, v |-> Arr(<<>>)]
         walletIndex == IF has("walletIndex") THEN parseIntOf(args.walletIndex) ELSE NaN
         newConfig ==
           [k \in UpdateKeys \cap DOMAIN args |->
              CASE k = "interval" -> interval
                [] k = "ensLabels" -> ens.v
                [] k = "userId" -> args.userId
                [] k = "walletIndex" -> walletIndex]
         rejected ==
           \/ has("interval") /\ (isNaN(interval) \/ interval.val < 1)
           \/ has("ensLabels") /\ ~ens.ok
           \/ has("walletIndex") /\ (isNaN(walletIndex) \/ walletIndex.val < 0)
           \/ UpdateKeys \cap DOMAIN args = {}
           \/ "scheduler" \notin ContainerProps(services)
     IN IF rejected
          THEN /\ reply' = Reply("update", args, NoId, FALSE, TRUE)
               /\ UNCHANGED <<sched, persisted>>
          ELSE /\ reply' = Reply("update", args, NoId, TRUE, TRUE)
               /\ sched' = updated(sched, newConfig)
               /\ persisted' = sched'.config
  /\ schedOps' = schedOps + 1
  /\ UNCHANGED <<tasks, history, msClock, execVars, runnerVars>>

\* scheduler.update as the other copy of the module has it: hands { ...args }
\* to updateConfig
updateSchedulerConfigRaw(args) ==
  /\ schedOps < MaxSchedOps
  /\ IF "scheduler" \notin ContainerProps(services)
       THEN /\ reply' = Reply("update", args, NoId, FALSE, TRUE)
            /\ UNCHANGED <<sched, persisted>>
       ELSE /\ reply' = Reply("update", args, NoId, TRUE, TRUE)
            /\ sched' = updated(sched, args)
            /\ persisted' = sched'.config
  /\ schedOps' = schedOps + 1
  /\ UNCHANGED <<tasks, history, msClock, execVars, runnerVars>>


\* ----------------------------------------------------------------- inputs
T0830 == <<"0", "8", ":", "3", "0">>
T2500 == <<"2", "5", ":", "0", "0">>
T830 == <<"8", ":", "3", "0">>
T0860 == <<"0", "8", ":", "6", "0">>
T0835 == <<"0", "8", ":", "3", "5">>
CommunityNp == <<"n", "p">>
CommunityCheck == <<CheckMark, "n", "p">>    \* a label that holds the check mark

BaseArgs ==
  [time |-> T0830, community |-> CommunityNp, count |-> <<"3">>,
   interval |-> <<"1">>, randomWallet |-> FALSE, hasWallet |-> FALSE,
   walletIndex |-> <<>>]

\* the add_task arguments of the command checks: the valid base, and the base
\* with one field changed
AddArgsCmd ==
  {BaseArgs}
    \cup {[BaseArgs EXCEPT !.time = t] : t \in {T2500, T830, T0860}}
    \cup {[BaseArgs EXCEPT !.community = <<>>]}
    \cup {[BaseArgs EXCEPT !.count = c] :
            c \in {<<"0">>, <<"-", "1">>, <<"a", "b", "c">>, <<>>, <<"2", ".", "5">>, <<"3", "x">>}}
    \cup {[BaseArgs EXCEPT !.interval = c] :
            c \in {<<"0">>, <<"x">>, <<"1", ".", "5">>}}
    \cup {[BaseArgs EXCEPT !.hasWallet = TRUE, !.walletIndex = w] :
            w \in {<<"0">>, <<"-", "1">>}}
    \cup {[BaseArgs EXCEPT !.randomWallet = TRUE, !.hasWallet = TRUE,
                           !.walletIndex = <<"-", "1">>]}

\* the add_task arguments of the runner checks: valid ones
AddArgsRun ==
  {[BaseArgs EXCEPT !.count = <<"2">>],
   [BaseArgs EXCEPT !.count = <<"1">>, !.interval = <<"7">>, !.community = CommunityCheck],
   [BaseArgs EXCEPT !.time = T0835, !.count = <<"1">>]}

IdSpace == {TaskId(st, rnd) : st \in 0..MaxStamp, rnd \in 0..(NumRand - 1)}
IdArgs == IdSpace \cup {NoId}

OkPatterns == [1..3 -> BOOLEAN]

PartialsSched ==
  {EmptyPartial,
   [enabled |-> JsTrue], [enabled |-> JsFalse],
   [enabled |-> "false:string"], [enabled |-> ":string"],
   [cronExpression |-> <<"*", " ", "*", " ", "*", " ", "*", " ", "*">>],
   [cronExpression |-> DefaultCron],
   [cronExpression |-> <<>>],
   [endTime |-> 8 * MinutesPerHour + 28],
   [startTime |-> 8 * MinutesPerHour + 31],
   [enabled |-> JsTrue, endTime |-> None]}

\* ---------------------------------------------------------- specifications
StartTime == 8 * MinutesPerHour + 27     \* day 0, 08:27

NoReply ==
  [seq |-> 0, op |-> "none", args |-> NoArgs, id |-> NoId, success |-> FALSE,
   readFailed |-> FALSE]

InitBase ==
  /\ tasks = <<>>
  /\ history = <<>>
  /\ msClock = 0
  /\ reply = NoReply
  /\ bg = <<>>
  /\ now = StartTime
  /\ jumps = 0
  /\ run = [r \in Runners |-> Idle]
  /\ runs = 0
  /\ execLog = <<>>
  /\ schedOps = 0

InitQuietSched ==
  /\ persisted = EmptyPartial
  /\ sched = constructed(EmptyPartial, FALSE)

\* the task store, its command handlers and the scheduled runner
Init ==
  /\ InitBase
  /\ InitQuietSched
  /\ services = "initServices"
  /\ env = "flaky"

StoreStep(addArgs, rnds, ios) ==
  \/ \E a \in addArgs, st \in 0..MaxStamp, rnd \in rnds, readOk \in ios, writeOk \in ios :
       addScheduleTask(a, st, rnd, readOk, writeOk)
  \/ \E id \in IdArgs, readOk \in ios, writeOk \in ios :
       deleteScheduleTask(id, readOk, writeOk)
  \/ \E id \in IdArgs, readOk \in ios, writeOk \in ios :
       enableScheduleTask(id, readOk, writeOk)
  \/ \E id \in IdArgs, readOk \in ios, writeOk \in ios :
       disableScheduleTask(id, readOk, writeOk)

RunnerStep ==
  \/ \E m \in {NoId, TaskId(0, 0), TaskId(1, 0)} : RunnerStart(1, m, Runners \ {1})
  \/ \E ok \in BOOLEAN : RunnerPost(1, ok)
  \/ RunnerSave(1)
  \/ \E d \in JumpSet : Advance(d)

Next ==
  \/ reply.seq < MaxRunOps /\ StoreStep(AddArgsRun, {0}, {TRUE})
  \/ reply.seq < MaxRunOps /\ \E id \in IdArgs, oks \in OkPatterns :
                                 executeScheduleTask(id, TRUE, oks)
  \/ RunnerStep

Spec == Init /\ [][Next]_vars

\* the command handlers alone, over valid and invalid arguments
InitCmd ==
  /\ InitBase
  /\ InitQuietSched
  /\ services \in Containers
  /\ env = "flaky"

NextCmd ==
  \/ StoreStep(AddArgsCmd, 0..(NumRand - 1), BOOLEAN)
  \/ \E id \in IdArgs, readOk \in BOOLEAN, oks \in OkPatterns :
       executeScheduleTask(id, readOk, oks)

SpecCmd == InitCmd /\ [][NextCmd]_vars

\* the SchedulerService alone
InitSched ==
  /\ InitBase
  /\ services = "initServices"
  /\ env = "flaky"
  /\ \E saved \in {EmptyPartial, [enabled |-> JsTrue], [enabled |-> JsFalse]},
        adminVisible \in BOOLEAN :
       /\ persisted = saved
       /\ sched = constructed(saved, adminVisible)

NextSched ==
  \/ \E p \in PartialsSched : start(p)
  \/ stop
  \/ \E p \in PartialsSched : updateConfig(p)
  \/ \E src \in {"ctor", "timer"} : checkSchedule(src)
  \/ \E outs \in {AllPublished} : runScheduleDone(outs)
  \/ \E d \in JumpSet : Advance(d)

SpecSched == InitSched /\ [][NextSched]_vars

\* scheduled runner invocations that may overlap: the workflow starts one
\* every five minutes whether or not the last one has ended
OverlapTasks ==
  <<newTask([BaseArgs EXCEPT !.count = <<"2">>, !.interval = <<"3">>], TaskId(0, 0)),
    newTask([BaseArgs EXCEPT !.time = T0835, !.count = <<"1">>], TaskId(1, 0))>>

InitOverlap ==
  /\ tasks = OverlapTasks
  /\ history = <<>>
  /\ msClock = 0
  /\ reply = NoReply
  /\ bg = <<>>
  /\ now = StartTime
  /\ jumps = 0
  /\ run = [r \in Runners |-> Idle]
  /\ runs = 0
  /\ execLog = <<>>
  /\ schedOps = 0
  /\ InitQuietSched
  /\ services = "initServices"
  /\ env = "flaky"

NextOverlap ==
  \/ \E r \in Runners : RunnerStart(r, NoId, {})
  \/ \E r \in Runners, ok \in BOOLEAN : RunnerPost(r, ok)
  \/ \E r \in Runners : RunnerSave(r)
  \/ \E d \in JumpSet : Advance(d)

SpecOverlap == InitOverlap /\ [][NextOverlap]_vars

\* the scheduled runner around midnight: one run at a time, a task whose
\* window ends the day and whose second post comes five minutes after the
\* first (interval 7, capped), and a task of the first minutes of the day
\* (interval 3)
T2358 == <<"2", "3", ":", "5", "8">>
T0002 == <<"0", "0", ":", "0", "2">>

MidnightTasks ==
  <<newTask([BaseArgs EXCEPT !.time = T2358, !.count = <<"2">>, !.interval = <<"7">>],
            TaskId(0, 0)),
    newTask([BaseArgs EXCEPT !.time = T0002, !.count = <<"2">>, !.interval = <<"3">>],
            TaskId(1, 0))>>

MidnightStart == 23 * MinutesPerHour + 56     \* day 0, 23:56
MidnightJumps == {3, MinutesPerDay - 5}

InitMidnight ==
  /\ tasks = MidnightTasks
  /\ history = <<>>
  /\ msClock = 0
  /\ reply = NoReply
  /\ bg = <<>>
  /\ now = MidnightStart
  /\ jumps = 0
  /\ run = [r \in Runners |-> Idle]
  /\ runs = 0
  /\ execLog = <<>>
  /\ schedOps = 0
  /\ InitQuietSched
  /\ services = "initServices"
  /\ env = "flaky"

NextMidnight ==
  \/ RunnerStart(1, NoId, Runners \ {1})
  \/ \E ok \in BOOLEAN : RunnerPost(1, ok)
  \/ RunnerSave(1)
  \/ \E d \in MidnightJumps : Advance(d)

SpecMidnight == InitMidnight /\ [][NextMidnight]_vars

\* triggered runs of the runtime-config path over configured lists
CronAlways == <<"*", " ", "*", " ", "*", " ", "*", " ", "*">>
PubLists ==
  [ensLabels |-> Arr(<<Str(<<"a">>), Str(<<"b">>)>>),
   enabledChains |-> Arr(<<Str(<<"b", "a", "s", "e">>), Str(<<"o", "p">>)>>),
   walletIndices |-> Arr(<<Num(1), Num(2)>>)]

PubArgs ==
  { [ensLabels |-> Str(<<"a", ",", "b">>), walletIndices |-> PubLists.walletIndices],
    [ensLabels |-> PubLists.ensLabels, walletIndices |-> Str(<<"1", ",", "2">>)] }

InitPub ==
  /\ tasks = <<>>
  /\ history = <<>>
  /\ msClock = 0
  /\ reply = NoReply
  /\ bg = <<>>
  /\ now = StartTime
  /\ jumps = 0
  /\ run = [r \in Runners |-> Idle]
  /\ runs = 0
  /\ execLog = <<>>
  /\ schedOps = 0
  /\ services = "initServices"
  /\ env = "flaky"
  /\ \E l \in {Arr(<<>>), PubLists.ensLabels}, c \in {Arr(<<>>), PubLists.enabledChains},
        w \in {Arr(<<>>), PubLists.walletIndices} :
       /\ persisted = [enabled |-> JsTrue, cronExpression |-> CronAlways,
                       ensLabels |-> l, enabledChains |-> c, walletIndices |-> w]
       /\ sched = constructed([enabled |-> JsTrue, cronExpression |-> CronAlways,
                               ensLabels |-> l, enabledChains |-> c,
                               walletIndices |-> w], TRUE)

NextPub ==
  \/ \E src \in {"ctor", "timer"} : checkSchedule(src)
  \/ \E outs \in OutcomePatterns : runScheduleDone(outs)
  \/ schedOps < MaxPubOps /\ \E a \in PubArgs : updateSchedulerConfig(a)
  \/ schedOps < MaxPubOps /\ \E a \in PubArgs : updateSchedulerConfigRaw(a)
  \/ \E d \in JumpSet : Advance(d)

SpecPub == InitPub /\ [][NextPub]_vars

\* the scheduler's tick over cron expressions and times of the year
Cron0900 == <<"0", " ", "9", " ", "*", " ", "*", " ", "*">>
CronEvery5 == <<"*", "/", "5", " ", "*", " ", "*", " ", "*", " ", "*">>

CronExprs ==
  { Cron0900, CronEvery5, DefaultCron,
    <<"*", "/", "1", "5", " ", "*", "/", "2", " ", "*", " ", "*", " ", "*">>,
    <<"0", " ", "9", " ", "1", " ", "*", " ", "*">>,
    <<"0", " ", "9", " ", "*", " ", "2", " ", "*">>,
    <<"0", " ", "9", " ", "*", " ", "*", " ", "7">>,
    <<"0", " ", "9", " ", "*", " ", "*", " ", "0">>,
    <<"0", " ", "9", " ", "*", " ", "*", " ", "6", ",", "7">>,
    <<"0", " ", "9", " ", "*", " ", "*", " ", "5", "-", "7">>,
    <<"0", ",", "3", "0", " ", "9", "-", "1", "0", " ", "*", " ", "*", " ", "1", "-", "5">>,
    <<"0", " ", "9", " ", "*", " ", "*">> }

CronBase == 8 * MinutesPerHour      \* day 0, 08:00
CronJumps == {MinutesPerHour, MinutesPerDay, 31 * MinutesPerDay}

InitCron ==
  /\ tasks = <<>>
  /\ history = <<>>
  /\ msClock = 0
  /\ reply = NoReply
  /\ bg = <<>>
  /\ now \in {CronBase + m : m \in 0..(MinutesPerHour - 1)}
  /\ jumps = 0
  /\ run = [r \in Runners |-> Idle]
  /\ runs = 0
  /\ execLog = <<>>
  /\ schedOps = 0
  /\ services = "initServices"
  /\ env = "flaky"
  /\ \E e \in CronExprs :
       /\ persisted = [enabled |-> JsTrue, cronExpression |-> e]
       /\ sched = constructed([enabled |-> JsTrue, cronExpression |-> e], TRUE)

CronAdvance(d) ==
  /\ jumps < MaxCronJumps
  /\ now' = now + d
  /\ jumps' = jumps + 1
  /\ UNCHANGED <<storeVars, execVars, run, runs, execLog, env, schedVars>>

NextCron ==
  \/ \E src \in {"ctor", "timer"} : checkSchedule(src)
  \/ \E outs \in {AllPublished} : runScheduleDone(outs)
  \/ \E d \in CronJumps : CronAdvance(d)

SpecCron == InitCron /\ [][NextCron]_vars

\* the scheduler.update command, in both copies of the handler
LabelsAbc == Arr(<<Str(<<"a">>), Str(<<"b">>), Str(<<"c">>)>>)

ArgsUpd ==
  { EmptyPartial,
    [ensLabels |-> Str(<<"a", ",", "b", ",", "c">>)],
    [ensLabels |-> Str(<<" ", "a", " ", ",", "b", " ", ",", " ", "c">>)],
    [ensLabels |-> Str(<<"[", Quote, "a", Quote, ",", Quote, "b", Quote, ",",
                         Quote, "c", Quote, "]">>)],
    [ensLabels |-> Str(<<"[", "a", "]">>)],
    [ensLabels |-> Str(<<>>)],
    [ensLabels |-> LabelsAbc],
    [ensLabels |-> Num(7)],
    [interval |-> Str(<<"5">>)],
    [interval |-> Str(<<"0">>)],
    [interval |-> Str(<<"-", "3">>)],
    [interval |-> Str(<<"2", ".", "5">>)],
    [interval |-> Str(<<"a", "b">>)],
    [interval |-> Num(7)],
    [interval |-> Num(0 - 5)],
    [interval |-> NaN],
    [walletIndices |-> Str(<<"1", ",", "2">>)],
    [walletIndices |-> Arr(<<Num(1), Num(2)>>)],
    [enabledChains |-> Str(<<"b", "a", "s", "e">>)],
    [enabledChains |-> Arr(<<Str(<<"b", "a", "s", "e">>)>>)],
    [walletIndex |-> Str(<<"2">>)],
    [walletIndex |-> Str(<<"-", "1">>)],
    [userId |-> Str(<<"b", "o", "b">>)],
    [interval |-> Str(<<"5">>), ensLabels |-> Str(<<"a", ",", "b", ",", "c">>)],
    [interval |-> Str(<<"0">>), ensLabels |-> Str(<<"a", ",", "b", ",", "c">>)] }

InitUpd ==
  /\ InitBase
  /\ services \in Containers
  /\ env = "flaky"
  /\ persisted = EmptyPartial
  /\ sched = constructed(EmptyPartial, TRUE)

NextUpd ==
  \/ \E a \in ArgsUpd : updateSchedulerConfig(a)
  \/ \E a \in ArgsUpd : updateSchedulerConfigRaw(a)

SpecUpd == InitUpd /\ [][NextUpd]_vars

\* the scheduled runner alone, over a task list one longer than the history cap
NumCapTasks == MaxHistory + 1

CapTasks ==
  [k \in 1..NumCapTasks |-> newTask([BaseArgs EXCEPT !.count = <<"1">>], TaskId(k, 0))]

InitCap ==
  /\ tasks = CapTasks
  /\ history = <<>>
  /\ msClock = 0
  /\ reply = NoReply
  /\ bg = <<>>
  /\ now = StartTime
  /\ jumps = 0
  /\ run = [r \in Runners |-> Idle]
  /\ runs = 0
  /\ execLog = <<>>
  /\ schedOps = 0
  /\ InitQuietSched
  /\ services = "initServices"
  /\ env \in {"up", "down"}

NextCap ==
  \/ RunnerStart(1, NoId, Runners \ {1})
  \/ \E ok \in BOOLEAN : RunnerPost(1, ok)
  \/ RunnerSave(1)
  \/ run[1].pc = "idle" /\ \E d \in JumpSet : Advance(d)    \* between two runs

SpecCap == InitCap /\ [][NextCap]_vars


\* ------------------------------------------------------------------ claims

\* C1 (de-duplication gate across ticks): of the scheduled runs of one
\* calendar day, each finishing and saving the history before the next
\* starts, at most one executes a given task: no two entries of the execution
\* log, made on the same day by different scheduled runs that started on that
\* day, name the same task.
C1_AtMostOnceADay ==
  \A i \in 1..Len(execLog), j \in 1..Len(execLog) :
    (/\ ~execLog[i].manual /\ ~execLog[j].manual
     /\ execLog[i].id = execLog[j].id
     /\ execLog[i].tickDay = execLog[j].tickDay
     /\ execLog[i].startDay = execLog[i].tickDay
     /\ execLog[j].startDay = execLog[j].tickDay)
      => execLog[i].serial = execLog[j].serial

\* every execution that has returned: the runner's last one, and those of
\* executeTaskAsync
Finished ==
  {run[r].last : r \in {q \in Runners : run[q].last.id # NoId}}
    \cup {[id |-> bg[k].id, contentCount |-> bg[k].contentCount,
           attempts |-> bg[k].attempts, results |-> bg[k].results] :
            k \in 1..Len(bg)}

\* C2 (partial-failure tolerance): every execution of a task with
\* contentCount = N makes exactly the publish attempts 1..N, in this order,
\* and yields exactly N per-post outcome lines, whatever posts fail.
C2_AllPostsAttempted ==
  \A e \in Finished :
    /\ e.attempts = [k \in 1..e.contentCount |-> k]
    /\ Len(e.results) = e.contentCount

\* C3 (aggregate outcome): the result of an execution has success = true
\* exactly when every one of its posts succeeded, and the record appended for
\* it has status "success" in that case and "failure" otherwise.
C3_SuccessIffAllPostsSucceeded ==
  \A r \in Runners :
    run[r].last.id # NoId =>
      LET e == run[r].last
          allOk == \A k \in 1..Len(e.oks) : e.oks[k]
          h == IF run[r].pc = "idle" THEN history ELSE run[r].lhist
      IN /\ e.success = allOk
         /\ Len(h) > 0
         /\ h[Len(h)].taskId = e.id
         /\ h[Len(h)].status = IF allOk THEN "success" ELSE "failure"

\* C4 (history cap): after any sequence of recordExecution calls the history
\* holds at most 100 records, namely the last 100 of the records that were
\* loaded followed by the ones appended since, in insertion order.
C4_HistoryCap ==
  /\ Len(history) <= MaxHistory
  /\ \A r \in Runners :
       LET all == run[r].loaded \o run[r].recs
           h == run[r].lhist
           n == IF Len(all) > MaxHistory THEN MaxHistory ELSE Len(all)
       IN /\ Len(h) = n
          /\ \A j \in 1..n : h[j] = all[Len(all) - n + j]

\* more than 100 records were appended, and the oldest ones evicted
C4_Witness ==
  \E r \in Runners :
    /\ Len(run[r].loaded) = MaxHistory
    /\ Len(run[r].recs) > 1
    /\ Len(run[r].lhist) = MaxHistory


\* a scheduled run is starting: main loads the task list
Tick(r) == run[r].pc = "idle" /\ run'[r].pc # "idle" /\ run'[r].manual = NoId

\* C5 (disabled tasks are never fired by a tick): a tick works on the task
\* list as stored when it starts, executes only tasks that are enabled in it,
\* appends records only for such tasks, and no step of a run changes the
\* stored task list, so a task that is stored disabled when the tick occurs
\* stays stored and is not executed, whatever its time.
C5_DisabledNeverFired ==
  [][\A r \in Runners :
       /\ Tick(r) => run'[r].ltasks = tasks
       /\ run'[r] # run[r] => tasks' = tasks
       /\ (run'[r].manual = NoId /\ run'[r].pc = "post") =>
            run'[r].ltasks[run'[r].cur].enabled
       /\ run'[r].manual = NoId =>
            \A j \in 1..Len(run'[r].recs) :
              \E k \in 1..Len(run'[r].ltasks) :
                /\ run'[r].ltasks[k].id = run'[r].recs[j].taskId
                /\ run'[r].ltasks[k].enabled]_vars

\* a tick at the exact trigger time of a stored, disabled task has run to its
\* end without a record
C5_Witness ==
  \E r \in Runners :
    /\ run[r].pc = "save"
    /\ run[r].manual = NoId
    /\ run[r].recs = <<>>
    /\ \E k \in 1..Len(run[r].ltasks) :
         /\ ~run[r].ltasks[k].enabled
         /\ taskHour(run[r].ltasks[k]) = Num(run[r].hour)
         /\ taskMinute(run[r].ltasks[k]) = Num(run[r].minute)
         /\ ~isTaskExecutedToday(run[r].lhist, run[r].ltasks[k].id, run[r].tickDay)

C7_AckedExecutionPublishes ==
  (reply.op = "execute" /\ reply.success) =>
    /\ Len(bg) > 0
    /\ bg[Len(bg)].id = reply.id
    /\ Len(bg[Len(bg)].attempts) = bg[Len(bg)].contentCount

\* the decimal numeral of an integer >= 1, and nothing else
IsPositiveInteger(s) ==
  /\ Len(s) > 0
  /\ \A i \in 1..Len(s) : s[i] \in Digits
  /\ \E i \in 1..Len(s) : s[i] # "0"

AddStep == reply'.seq = reply.seq + 1 /\ reply'.op = "add"

\* C8 (add validation is all-or-nothing): an add is accepted only if its time
\* matches HH:MM, its community is non-empty and its count and interval are
\* integers >= 1; a rejected add leaves the stored list as it was, and an
\* accepted one (whose read of the store did not fail) appends exactly one
\* task, enabled.
C8_AddAllOrNothing ==
  [][AddStep =>
       IF reply'.success
         THEN /\ TimeRegexTest(reply'.args.time)
              /\ reply'.args.community # <<>>
              /\ IsPositiveInteger(reply'.args.count)
              /\ IsPositiveInteger(reply'.args.interval)
              /\ ~reply'.readFailed =>
                   /\ Len(tasks') = Len(tasks) + 1
                   /\ SubSeq(tasks', 1, Len(tasks)) = tasks
                   /\ tasks'[Len(tasks')].id = reply'.id
                   /\ tasks'[Len(tasks')].enabled
         ELSE tasks' = tasks]_vars

\* C9 (task id uniqueness): no two stored tasks have the same id.
C9_UniqueIds ==
  \A i \in 1..Len(tasks), j \in 1..Len(tasks) :
    tasks[i].id = tasks[j].id => i = j

LookupStep ==
  /\ reply'.seq = reply.seq + 1
  /\ reply'.op \in {"delete", "enable", "disable", "execute"}

\* C10 (not-found errors have no side effect): delete, enable, disable and
\* execute called with an id that matches no stored task return success =
\* false, leave the task list and the execution history unchanged and start
\* no execution.
C10_NotFoundNoSideEffect ==
  [][(LookupStep /\ \A k \in 1..Len(tasks) : tasks[k].id # reply'.id) =>
       /\ ~reply'.success
       /\ tasks' = tasks
       /\ history' = history
       /\ bg' = bg
       /\ execLog' = execLog
       /\ run' = run]_vars

\* a delete of an id that is not in a non-empty store has been refused
C10_Witness ==
  /\ reply.op = "delete"
  /\ ~reply.success
  /\ reply.id # NoId
  /\ Len(tasks) > 0
  /\ \A k \in 1..Len(tasks) : tasks[k].id # reply.id

DeleteDone == reply'.seq = reply.seq + 1 /\ reply'.op = "delete" /\ reply'.success

KeepsOthers(t) == t.id # reply'.id

\* C11 (weak reference from history to tasks): a successful delete(id) leaves
\* in the store exactly the tasks whose id is not id, in their order, so the
\* task is in no later listing, and it leaves the execution history as it
\* was, so the records of the deleted id are still there.
C11_DeleteKeepsHistory ==
  [][DeleteDone =>
       /\ tasks' = SelectSeq(tasks, KeepsOthers)
       /\ Len(tasks') = Len(tasks) - 1
       /\ history' = history]_vars

UpdateDone == schedOps' = schedOps + 1 /\ sched'.lastOp = "update"

\* C12 (updateConfig is a shallow merge): after updateConfig(partial) every
\* field of partial has the supplied value and every other field of the
\* config is unchanged, the persisted config equals the one in memory, and
\* setupTimer has run if and only if enabled changed or partial carries a
\* cronExpression different from the current one.
C12_ShallowMerge ==
  [][UpdateDone =>
       LET partial == sched'.lastArg
       IN /\ DOMAIN sched'.config = DOMAIN sched.config \cup DOMAIN partial
          /\ \A k \in DOMAIN partial : sched'.config[k] = partial[k]
          /\ \A k \in DOMAIN sched.config \ DOMAIN partial :
               sched'.config[k] = sched.config[k]
          /\ persisted' = sched'.config
          /\ sched'.rearmed <=>
               \/ sched'.config.enabled # sched.config.enabled
               \/ /\ "cronExpression" \in DOMAIN partial
                  /\ partial.cronExpression # sched.config.cronExpression]_vars

HandlerUpdateDone ==
  reply'.seq = reply.seq + 1 /\ reply'.op = "update" /\ reply'.success

\* C13 (ensLabels normalization on update): after a successful update whose
\* ensLabels argument is a string, the config's ensLabels is an array and
\* never the raw string: the trimmed items of a comma-separated string
\* ("a,b,c" gives ["a","b","c"]), the parsed array of a JSON array literal.
C13_EnsLabelsNormalized ==
  [][(HandlerUpdateDone /\ "ensLabels" \in DOMAIN reply'.args
        /\ IsString(reply'.args.ensLabels)) =>
       /\ isArray(sched'.config.ensLabels)
       /\ sched'.config.ensLabels = ensLabelsOf(reply'.args.ensLabels).v
       /\ (reply'.args.ensLabels = Str(<<"a", ",", "b", ",", "c">>)
             => sched'.config.ensLabels = LabelsAbc)]_vars
HandlerUpdateStep == reply'.seq = reply.seq + 1 /\ reply'.op = "update"

IsNumber(x) == "nan" \in DOMAIN x

\* a stored interval is a positive integer
GoodInterval(x) == IsNumber(x) /\ ~x.nan /\ x.val >= 1

\* an interval argument that is no positive integer, as a number or a numeral
BadIntervalArg(x) ==
  /\ ~GoodInterval(x)
  /\ ~(IsString(x) /\ IsPositiveInteger(x.v))

\* an argument of an array-typed field that is no array and is neither a
\* JSON array literal nor a comma-separated string
BadArrayArg(x) == ~isArray(x) /\ ~(IsString(x) /\ ensLabelsOf(x).ok)

ArrayFields == {"ensLabels", "walletIndices", "enabledChains"}

CarriesBadValue(args) ==
  \/ "interval" \in DOMAIN args /\ BadIntervalArg(args.interval)
  \/ \E k \in ArrayFields \cap DOMAIN args : BadArrayArg(args[k])

\* C14 (field-level validation before merge): no update ever leaves in the
\* config an interval that is not a positive integer or a non-array in
\* ensLabels, walletIndices or enabledChains, and an update carrying such a
\* value is rejected and leaves the config, in memory and persisted, as it was.
C14_ValidatedBeforeMerge ==
  [][HandlerUpdateStep =>
       /\ GoodInterval(sched'.config.interval)
       /\ \A k \in ArrayFields : isArray(sched'.config[k])
       /\ CarriesBadValue(reply'.args) =>
            /\ ~reply'.success
            /\ sched'.config = sched.config
            /\ persisted' = persisted]_vars
\* a step of checkSchedule that reached the test of the cron expression
CronTick ==
  /\ now' = now /\ schedOps' = schedOps /\ sched' # sched
  /\ sched'.lastOp = "tick" /\ sched'.inflight >= sched.inflight

\* the tick went on to runSchedule
Fired == sched'.inflight = sched.inflight + 1

\* C15 (cron conjunction): a tick fires if and only if the expression has
\* five fields and each of them matches its component of the time (minute,
\* hour, day of month, month, day of week); "0 9 * * *" fires exactly at
\* hour 9, minute 0, whatever the day, month and weekday.
C15_CronConjunction ==
  [][CronTick =>
       LET parts == split(sched.config.cronExpression, " ", <<>>)
       IN /\ Fired <=>
               /\ Len(parts) = 5
               /\ matches(parts[1], Minute(now))
               /\ matches(parts[2], Hour(now))
               /\ matches(parts[3], DayOfMonth(now))
               /\ matches(parts[4], Month(now))
               /\ matches(parts[5], DayOfWeek(now))
          /\ sched.config.cronExpression = Cron0900 =>
               (Fired <=> Hour(now) = 9 /\ Minute(now) = 0)]_vars

\* "0 9 * * *" has fired at 09:00 of a day that is not in January
C15_Witness ==
  /\ sched.config.cronExpression = Cron0900
  /\ sched.inflight > 0 /\ sched.lastRunTime = now
  /\ Hour(now) = 9 /\ Minute(now) = 0 /\ Month(now) > 1
\* a field of the form */s with s the numeral of a positive integer
IsStep(field) ==
  /\ Len(field) >= 3 /\ field[1] = "*" /\ field[2] = "/"
  /\ IsPositiveInteger(SubSeq(field, 3, Len(field)))

StepOf(field) == Number(SubSeq(field, 3, Len(field))).val

\* C16 (step fields): a field */s matches a value v if and only if
\* v mod s = 0: a tick under an expression made of * and */s fields fires
\* exactly when every stepped component is a multiple of its step, and
\* "*/5 * * * *" fires at the minutes 0, 5, 10, ..., 55 and at no other.
C16_StepFields ==
  [][CronTick =>
       LET parts == split(sched.config.cronExpression, " ", <<>>)
           vals == <<Minute(now), Hour(now), DayOfMonth(now), Month(now),
                     DayOfWeek(now)>>
       IN /\ (Len(parts) = 5
                /\ \A i \in 1..5 : parts[i] = <<"*">> \/ IsStep(parts[i])) =>
               (Fired <=> \A i \in 1..5 :
                            IsStep(parts[i]) => vals[i] % StepOf(parts[i]) = 0)
          /\ sched.config.cronExpression = CronEvery5 =>
               (Fired <=> Minute(now) \in {5 * k : k \in 0..11})]_vars

\* "*/5 * * * *" has fired at minute 55 of an hour
C16_Witness ==
  /\ sched.config.cronExpression = CronEvery5
  /\ sched.inflight > 0 /\ sched.lastRunTime = now
  /\ Minute(now) = 55
\* C17 (at most one trigger per matching minute): a tick that goes on to
\* runSchedule is the first to do so in its minute, and starts it while no
\* other runSchedule is in progress.
C17_OneTriggerPerMinute ==
  [][(CronTick /\ Fired) =>
       /\ sched.lastRunTime # now
       /\ sched.inflight = 0]_vars
\* a runner saves its history
SaveStep == \E r \in Runners : run[r].pc = "save" /\ run'[r].pc = "idle"

\* C18 (overlapping scheduled runs do not double-fire): scheduled runs that
\* overlap execute a task at most once on a day between them, and when one of
\* them saves, every execution record of the history file is still in it.
C18_OverlapNoDoubleFire ==
  [][/\ \A i \in 1..Len(execLog'), j \in 1..Len(execLog') :
          (/\ execLog'[i].id = execLog'[j].id
           /\ execLog'[i].startDay = execLog'[j].startDay
           /\ execLog'[i].tickDay = execLog'[j].tickDay)
            => execLog'[i].serial = execLog'[j].serial
     /\ SaveStep =>
          \A k \in 1..Len(history) :
            \E n \in 1..Len(history') : history'[n] = history[k]]_vars
\* C19 (an execution counts for the day it was triggered): every record a
\* scheduled run writes is dated with the day of the run's tick, and a run
\* that ends has executed, or finds executed by a tick of the same day,
\* every enabled task whose window held its tick.
C19_DatedByTriggerDay ==
  \A r \in Runners :
    /\ \A k \in 1..Len(run[r].recs) :
         run[r].recs[k].executionDate = run[r].tickDay
    /\ (run[r].pc = "save" /\ run[r].manual = NoId) =>
         \A k \in 1..Len(run[r].ltasks) :
           (/\ run[r].ltasks[k].enabled
            /\ isTimeMatch(run[r].ltasks[k], run[r].hour, run[r].minute)) =>
             \E e \in 1..Len(execLog) :
               /\ execLog[e].id = run[r].ltasks[k].id
               /\ execLog[e].tickDay = run[r].tickDay
\* C20 (fire-and-forget dispatch): a tick starts every task it matches
\* without waiting for another one's publish sequence: while a scheduled run
\* is past the first post of a task and has posts of it left, every later
\* task of the list that the tick matches has been started by that run.
C20_FireAndForget ==
  \A r \in Runners :
    (run[r].pc = "post" /\ run[r].manual = NoId /\ run[r].i >= 1) =>
      \A k \in (run[r].cur + 1)..Len(run[r].ltasks) :
        taskDue(run[r].ltasks[k], run[r].lhist, run[r].hour, run[r].minute,
                run[r].tickDay) =>
          \E e \in 1..Len(execLog) :
            /\ execLog[e].id = run[r].ltasks[k].id
            /\ execLog[e].serial = run[r].serial
\* the executions run r has started in its current invocation
StartedBy(r, log) == {e \in 1..Len(log) : log[e].serial = run[r].serial}

\* C21 (tasks matched by one tick are processed one after another in list
\* order): a run has at most one started execution without a record, and
\* when it goes from one task to the next, the next is later in the list, the
\* record of the earlier one has just been appended and no post of the later
\* one has been made.
C21_OneAfterAnother ==
  [][\A r \in Runners :
       (run[r].pc = "post" /\ run'[r].serial = run[r].serial) =>
         /\ Cardinality({e \in 1..Len(execLog') : execLog'[e].serial = run[r].serial})
              - Len(run'[r].recs) <= 1
         /\ (run'[r].pc = "post" /\ run'[r].cur # run[r].cur) =>
              /\ run'[r].cur > run[r].cur
              /\ Len(run'[r].recs) = Len(run[r].recs) + 1
              /\ run'[r].recs[Len(run'[r].recs)].taskId = run[r].ltasks[run[r].cur].id
              /\ run'[r].i = 0]_vars

\* a run has recorded one task and started the next
C21_Witness ==
  \E r \in Runners :
    /\ run[r].pc = "post" /\ run[r].manual = NoId
    /\ Len(run[r].recs) >= 1
    /\ Cardinality(StartedBy(r, execLog)) = 2
\* one of the two intervals calls checkSchedule
TickStep == schedOps' = schedOps /\ sched'.firedAt # sched.firedAt

C22_WitnessBefore ==
  /\ Truthy(sched.config.enabled) /\ sched.config.startTime # None
  /\ now < sched.config.startTime /\ sched.firedAt.ctor = now
\* the list a config field stands for: the array itself, or for a string
\* its comma-separated items; the default for an empty one
ConfiguredList(x, dflt) ==
  LET items == IF isArray(x) THEN x.items
               ELSE IF IsString(x) THEN ensLabelsOf(x).v.items
               ELSE <<>>
  IN IF items = <<>> THEN <<dflt>> ELSE items

\* C23 (cross-product publishing): a triggered run of the runtime-config
\* path makes one pass, with its publish attempt, for every (ensLabel, chain,
\* walletIndex) combination of the configured lists, an empty list standing
\* for its default, whatever passes fail.
C23_CrossProduct ==
  sched.lastRun.done =>
    LET of == sched.lastRun.of
        expected ==
          combinations(
            [ensLabels |-> ConfiguredList(of.ensLabels, Defaults.ensLabel),
             enabledChains |-> ConfiguredList(of.enabledChains, Defaults.chainName),
             walletIndices |-> ConfiguredList(of.walletIndices, Defaults.walletIndex)])
    IN /\ Len(sched.lastRun.attempts) = Len(expected)
       /\ \A k \in 1..Len(expected) : sched.lastRun.attempts[k].combo = expected[k]
\* run r has started an execution of the task with this id
ExecutedBy(r, id) ==
  \E e \in 1..Len(execLog) : execLog[e].id = id /\ execLog[e].serial = run[r].serial

\* C24 (trigger window): a tick at h:m executes an enabled task with time
\* H:M that has no record yet if and only if h = H and |m - M| <= 5; a tick
\* in the hour before or after H never does, however close.
C24_TriggerWindow ==
  \A r \in Runners :
    (run[r].pc = "save" /\ run[r].manual = NoId) =>
      \A k \in 1..Len(run[r].ltasks) :
        LET task == run[r].ltasks[k]
        IN (/\ task.enabled
            /\ \A j \in 1..Len(run[r].loaded) : run[r].loaded[j].taskId # task.id) =>
             (ExecutedBy(r, task.id) <=>
                /\ run[r].hour = taskHour(task).val
                /\ Abs(run[r].minute - taskMinute(task).val) <= 5)

\* a tick at 23:59 has run the task of 23:58 and not the task of 00:02
C24_Witness ==
  /\ run[1].pc = "save" /\ run[1].manual = NoId
  /\ run[1].hour = 23 /\ run[1].minute = 59
  /\ run[1].loaded = <<>>
  /\ ExecutedBy(1, MidnightTasks[1].id)
  /\ ~ExecutedBy(1, MidnightTasks[2].id)
\* C25 (inter-post wait): the first post of an execution waits for nothing,
\* and after each post but the last the next one is set to come exactly
\* min(task.interval, 5) minutes later, never more than 5, and is not made
\* before.
C25_InterPostWait ==
  [][\A r \in Runners :
       (run[r].pc = "post" /\ run'[r] # run[r]) =>
         LET task == run[r].ltasks[run[r].cur]
         IN /\ now' >= run[r].wake
            /\ run[r].i = 0 => run[r].wake <= now
            /\ run[r].i + 1 < task.contentCount =>
                 /\ run'[r].pc = "post" /\ run'[r].i = run[r].i + 1
                 /\ run'[r].wake - now' = Min(task.interval, 5)
                 /\ run'[r].wake - now' <= 5]_vars

\* a run is in the wait of five minutes of a task whose interval is 7
C25_Witness ==
  /\ run[1].pc = "post" /\ run[1].i = 1
  /\ run[1].ltasks[run[1].cur].interval = 7
  /\ run[1].wake = now + 5
\* C26 (Stopped implies no next run): whenever config.enabled is false,
\* status.nextRunTime is null, also after a tick that was suspended in its
\* publish sequence while stop() was called has resumed.
C26_StoppedNoNextRun ==
  ~Truthy(sched.config.enabled) => sched.nextRunTime = None
\* C27 (add only appends): after an add that reports success the store is
\* the store of before followed by the new task, also when the add's read of
\* the store failed and gave the empty list.
C27_AddOnlyAppends ==
  [][(reply'.seq = reply.seq + 1 /\ reply'.op = "add" /\ reply'.success) =>
       /\ Len(tasks') = Len(tasks) + 1
       /\ SubSeq(tasks', 1, Len(tasks)) = tasks
       /\ tasks'[Len(tasks')] = newTask(reply'.args, reply'.id)]_vars
\* a record of the loaded history names the task and the day
RecordedOn(h, id, day) ==
  \E j \in 1..Len(h) : h[j].taskId = id /\ h[j].executionDate = day

C28_WitnessSkip ==
  /\ run[1].pc = "save" /\ run[1].manual = NoId
  /\ \E k \in 1..Len(run[1].ltasks) :
       LET task == run[1].ltasks[k]
       IN /\ task.enabled
          /\ isTimeMatch(task, run[1].hour, run[1].minute)
          /\ RecordedOn(run[1].loaded, task.id, run[1].tickDay)
          /\ ~ExecutedBy(1, task.id)
          /\ \E e \in 1..Len(execLog) : execLog[e].id = task.id /\ execLog[e].manual
FlagStep == reply'.seq = reply.seq + 1 /\ reply'.op \in {"enable", "disable"}

Weekday == ((Day(now) + 3) % 7) + 1

\* C30 (day-of-week convention): the day of the week is matched as 1..7 with
\* Sunday = 7: a tick under "0 9 * * F" fires exactly at 09:00 of the days
\* whose number in 1..7 the field F matches; with F = 7, a list with 7 or a
\* range up to 7 it fires on Sundays, with F = 0 it fires on no day, and a
\* field 1-5 fires on no Sunday.
C30_SundayIsSeven ==
  [][CronTick =>
       LET parts == split(sched.config.cronExpression, " ", <<>>)
           at0900 == Hour(now) = 9 /\ Minute(now) = 0
       IN /\ (Len(parts) = 5 /\ SubSeq(parts, 1, 4) = <<<<"0">>, <<"9">>, <<"*">>, <<"*">>>>) =>
               /\ Fired <=> (at0900 /\ matches(parts[5], Weekday))
               /\ parts[5] = <<"7">> => (Fired <=> (at0900 /\ Weekday = 7))
               /\ parts[5] = <<"6", ",", "7">> => (Fired <=> (at0900 /\ Weekday \in {6, 7}))
               /\ parts[5] = <<"5", "-", "7">> => (Fired <=> (at0900 /\ Weekday \in 5..7))
               /\ parts[5] = <<"0">> => ~Fired
          /\ (Len(parts) = 5 /\ parts[5] = <<"1", "-", "5">> /\ Fired) => Weekday \in 1..5]_vars

\* "0 9 * * 7" has fired at 09:00 of a Sunday
C30_Witness ==
  /\ sched.config.cronExpression = <<"0", " ", "9", " ", "*", " ", "*", " ", "7">>
  /\ sched.inflight > 0 /\ sched.lastRunTime = now
  /\ Hour(now) = 9 /\ Minute(now) = 0 /\ Weekday = 7

\* a tick at 09:00 of a Sunday has not fired under "0 9 * * 0"
C30_WitnessZero ==
  /\ sched.config.cronExpression = <<"0", " ", "9", " ", "*", " ", "*", " ", "0">>
  /\ sched.lastOp = "tick" /\ sched.firedAt.ctor = now /\ sched.inflight = 0
  /\ sched.lastRunTime = None
  /\ Hour(now) = 9 /\ Minute(now) = 0 /\ Weekday = 7
====
